---- MODULE Spec2Model ----
(***************************************************************************)
(* Model of the tinygrad CPU engine of exo:                                *)
(*   - TinygradDetokenizer            (utils_tokenizer.py)                 *)
(*   - tinygrad_generate, warmup_inference (generator/generate.py)         *)
(*   - the Instance tagged union      (exercised by test_instances.py)     *)
(* Text is a sequence of characters, a token an integer id.                *)
(***************************************************************************)
EXTENDS Integers, Sequences, FiniteSets, TLC

\* ------------------------------------------------------------------ bounds
MaxToks == 3
MaxText == 2
NumTokens == 2
MaxN == 2
MaxPrompt == 2
MaxResetsInRow == 2

Alphabet == {"a", "b"}
Tokens == 1..NumTokens
Texts == UNION {[1..n -> Alphabet] : n \in 0..MaxText}
None == "None"

\* ------------------------------------------------------- TinygradDetokenizer
\* TinygradDetokenizer.__init__
TinygradDetokenizer ==
    [all_tokens |-> <<>>, full_text |-> <<>>, current_segment |-> <<>>]

reset_keeps_text(d) == [d EXCEPT !.all_tokens = <<>>]

\* TinygradDetokenizer.reset
reset(d) == [d EXCEPT !.all_tokens = <<>>, !.full_text = <<>>]

\* python s[k:]
SliceFrom(s, k) == SubSeq(s, k + 1, Len(s))

add_keeps_full_text(d, token, new_text) ==
    IF Len(new_text) > Len(d.full_text)
    THEN [all_tokens |-> Append(d.all_tokens, token),
          full_text |-> d.full_text,
          current_segment |-> SliceFrom(new_text, Len(d.full_text))]
    ELSE [all_tokens |-> Append(d.all_tokens, token),
          full_text |-> d.full_text,
          current_segment |-> <<>>]

add_always_takes_decode(d, token, new_text) ==
    [all_tokens |-> Append(d.all_tokens, token),
     full_text |-> new_text,
     current_segment |-> SliceFrom(new_text, Len(d.full_text))]

add_emits_from_start(d, token, new_text) ==
    IF Len(new_text) > Len(d.full_text)
    THEN [all_tokens |-> Append(d.all_tokens, token),
          full_text |-> new_text,
          current_segment |-> IF Len(d.full_text) = 0 THEN new_text
                              ELSE SliceFrom(new_text, Len(d.full_text) - 1)]
    ELSE [all_tokens |-> Append(d.all_tokens, token),
          full_text |-> d.full_text,
          current_segment |-> <<>>]

add_emits_whole_decode(d, token, new_text) ==
    IF Len(new_text) > Len(d.full_text)
    THEN [all_tokens |-> Append(d.all_tokens, token),
          full_text |-> new_text,
          current_segment |-> new_text]
    ELSE [all_tokens |-> Append(d.all_tokens, token),
          full_text |-> d.full_text,
          current_segment |-> <<>>]

\* TinygradDetokenizer.add; new_text is what self.tokenizer.decode returned
\* for the extended token list
add(d, token, new_text) ==
    IF Len(new_text) > Len(d.full_text)
    THEN [all_tokens |-> Append(d.all_tokens, token),
          full_text |-> new_text,
          current_segment |-> SliceFrom(new_text, Len(d.full_text))]
    ELSE [all_tokens |-> Append(d.all_tokens, token),
          full_text |-> d.full_text,
          current_segment |-> <<>>]

\* TinygradDetokenizer.add when self.tokenizer.decode raises: the append has
\* already happened, nothing else has
add_decode_raises(d, token) == [d EXCEPT !.all_tokens = Append(@, token)]

\* TinygradDetokenizer.get
get(d) == d.full_text

\* TinygradDetokenizer.last_segment
last_segment(d) == d.current_segment

\* ------------------------------------------------------------ generate.py
\* an optional value: <<>> is Python's None, <<v>> is the value v
Absent == <<>>
Some(v) == <<v>>

\* constants.MAX_TOKENS, the default cap used when the request has none
MAX_TOKENS == 3

\* max_tokens=10 of the request warmup_inference builds
WarmupMaxTokens == 10

\* names bound at module level in generate.py (its imports and its two defs)
GenerateModuleNames ==
    {"ChatCompletionMessage", "ChatCompletionTaskParams", "GenerationResponse",
     "Model", "MAX_TOKENS", "TinygradTokenizer", "Tensor", "Callable",
     "Generator", "warmup_inference", "tinygrad_generate"}

\* the Python builtins the function body could mean
PythonBuiltins == {"range", "int"}

\* Python's lookup of a free name in tinygrad_generate: module globals, then
\* builtins; an unbound name raises NameError when it is evaluated
NameBound(name) == name \in GenerateModuleNames \cup PythonBuiltins

\* the callable named in the loop header, "for idx in ranges(max_tokens)"
LoopIterable == "ranges"

finish_reason_length_first(next_token, idx, max_tokens, eos) ==
    IF idx = max_tokens - 1 THEN "length"
    ELSE IF eos # Absent /\ Len(eos[1]) > 0
            /\ \E i \in 1..Len(eos[1]) : eos[1][i] = next_token THEN "stop"
    ELSE None

finish_reason_stops_without_eos(next_token, idx, max_tokens, eos) ==
    IF eos = Absent \/ Len(eos[1]) = 0
       \/ \E i \in 1..Len(eos[1]) : eos[1][i] = next_token THEN "stop"
    ELSE IF idx = max_tokens - 1 THEN "length"
    ELSE None

\* the "Check EOS" block: eos is tokenizer.eos_token_ids (Absent or Some(list))
finish_reason_of(next_token, idx, max_tokens, eos) ==
    IF eos # Absent /\ Len(eos[1]) > 0
       /\ \E i \in 1..Len(eos[1]) : eos[1][i] = next_token THEN "stop"
    ELSE IF idx = max_tokens - 1 THEN "length"
    ELSE None

ResolveMaxTokens_none_only(task_max_tokens) ==
    IF task_max_tokens = Absent THEN MAX_TOKENS ELSE task_max_tokens[1]

\* "task.max_tokens or MAX_TOKENS": None and 0 are both falsy
ResolveMaxTokens(task_max_tokens) ==
    IF task_max_tokens = Absent \/ task_max_tokens[1] = 0
    THEN MAX_TOKENS ELSE task_max_tokens[1]

\* x.shape: Tensor([curr_tokens]) wraps a list in a list, shape (1, seq_len);
\* Tensor([curr_tokens[-1]]) wraps one int in a list, a one-dimensional
\* tensor of shape (1,), so x.shape[1] does not exist for it
InputShape(idx, curr_tokens) ==
    IF idx = 0 THEN <<1, Len(curr_tokens)>> ELSE <<1>>

InputTokens(idx, curr_tokens) ==
    IF idx = 0 THEN curr_tokens ELSE <<curr_tokens[Len(curr_tokens)]>>

\* the generator object tinygrad_generate(...) returns, before its body runs
NewGenerator(task_max_tokens) ==
    [state |-> "created", task_max_tokens |-> task_max_tokens,
     tokens |-> <<>>, start_pos |-> 0, max_tokens |-> 0, curr_tokens |-> <<>>,
     idx |-> -1, finish_reason |-> None,
     responses |-> <<>>, model_calls |-> <<>>, sampler_calls |-> 0,
     tokenizer_calls |-> 0, raised |-> "none",
     pulls |-> 0, last_fail |-> "none", step_due |-> FALSE]

NoGenerator == [NewGenerator(Absent) EXCEPT !.state = "none"]

Raise(g, exc) == [g EXCEPT !.state = "finished", !.raised = exc]

Return(g) == [g EXCEPT !.state = "finished"]

Out(g, d, did_reset, decodes) ==
    [g |-> g, d |-> d, did_reset |-> did_reset, decodes |-> decodes]

\* one pass through the loop body, up to and including the yield
LoopBody(g, d, eos, idx, inp, did_reset) ==
    LET shape == InputShape(idx, g.curr_tokens)
        x == InputTokens(idx, g.curr_tokens)
        g1 == [g EXCEPT !.idx = idx,
                        !.model_calls = Append(@, [x |-> x, shape |-> shape,
                                                   start_pos |-> g.start_pos])]
        g2 == [g1 EXCEPT !.sampler_calls = @ + 1]
        next_token == inp.token
        g3 == [g2 EXCEPT !.curr_tokens = Append(@, next_token)]
        g4 == [g3 EXCEPT !.start_pos = @ + shape[2]]
        d1 == add(d, next_token, inp.decode_result)
        new_text == last_segment(d1)
        finish_reason == finish_reason_of(next_token, idx, g.max_tokens, eos)
    IN  IF inp.fail = "model" THEN Out(Raise(g1, "ModelFailure"), d, did_reset, <<>>)
        ELSE IF inp.fail = "sampler"
        THEN Out(Raise(g2, "SamplerFailure"), d, did_reset, <<>>)
        ELSE IF Len(shape) < 2
        THEN Out(Raise(g3, "IndexError"), d, did_reset, <<>>)
        ELSE IF inp.fail = "decode"
        THEN Out(Raise(g4, "TokenizerFailure"),
                 add_decode_raises(d, next_token), did_reset, <<>>)
        ELSE Out([g4 EXCEPT !.state = "suspended",
                            !.finish_reason = finish_reason,
                            !.responses = Append(@, [text |-> new_text,
                                                      token |-> next_token,
                                                      finish_reason |-> finish_reason])],
                 d1, did_reset, <<inp.decode_result>>)

\* the for statement: its iterable is evaluated once, on entry; then one
\* index per iteration until the indices run out
ForLoop(g, d, eos, inp, entering, did_reset) ==
    IF entering /\ ~NameBound(LoopIterable)
    THEN Out(Raise(g, "NameError"), d, did_reset, <<>>)
    ELSE LET idx == IF entering THEN 0 ELSE g.idx + 1
         IN  IF idx < g.max_tokens
             THEN LoopBody(g, d, eos, idx, inp, did_reset)
             ELSE Out(Return(g), d, did_reset, <<>>)

\* the statements of tinygrad_generate before the loop
Prelude(g, d, eos, inp) ==
    IF inp.fail = "template"
    THEN Out(Raise([g EXCEPT !.tokenizer_calls = 1], "TokenizerFailure"), d, FALSE, <<>>)
    ELSE IF inp.fail = "encode"
    THEN Out(Raise([g EXCEPT !.tokenizer_calls = 2], "TokenizerFailure"), d, FALSE, <<>>)
    ELSE LET g1 == [g EXCEPT !.tokenizer_calls = 2,
                             !.tokens = inp.prompt,
                             !.start_pos = 0,
                             !.max_tokens = ResolveMaxTokens(g.task_max_tokens),
                             !.curr_tokens = inp.prompt]
         IN  ForLoop(g1, reset(d), eos, inp, TRUE, TRUE)

\* history: whether the next() about to run has a step to compute, that is
\* the stream has not ended and the step budget is not used up
StepDue(g) ==
    \/ g.state = "created"
    \/ g.state = "suspended" /\ g.finish_reason = None /\ g.idx + 1 < g.max_tokens

\* next(generator): run the body from where it stands to its next yield, its
\* return or its raise
GenNext(g, d, eos, inp) ==
    LET g0 == [g EXCEPT !.pulls = @ + 1,
                        !.last_fail = inp.fail,
                        !.step_due = StepDue(g)]
    IN  IF g.state = "created" THEN Prelude(g0, d, eos, inp)
        ELSE IF g.state = "suspended"
        THEN IF g.finish_reason # None
             THEN Out(Return(g0), d, FALSE, <<>>)
             ELSE ForLoop(g0, d, eos, inp, FALSE, FALSE)
        ELSE Out(g, d, FALSE, <<>>)

\* ------------------------------------------------------------------- state
VARIABLES
    detokenizer,     \* tokenizer.detokenizer: all_tokens, full_text, current_segment
    decoded,         \* history: what decode returned in each add since construction/reset
    emitted,         \* history: the last_segment values read after each add, concatenated
    resets_in_row,   \* history: number of reset() calls since the last add
    fresh,           \* history: a TinygradDetokenizer constructed at the last reset
                     \* and given the same add calls since
    eos_token_ids,   \* tokenizer.eos_token_ids
    gen,             \* the caller's generator object and its frame
    warm,            \* the running or finished warmup_inference call
    pol,             \* the last evaluation of the "Check EOS" block on its own
    instance,        \* the Instance last encoded, if any
    wire,            \* the encoded structure last produced or received, if any
    restored         \* the outcome of decoding wire, if done

vars == <<detokenizer, decoded, emitted, resets_in_row, fresh, eos_token_ids, gen,
          warm, pol, instance, wire, restored>>

detvars == <<detokenizer, decoded, emitted, resets_in_row, fresh>>

genvars == <<eos_token_ids, gen, warm>>

othervars == <<pol, instance, wire, restored>>

DetokInit ==
    /\ detokenizer = TinygradDetokenizer
    /\ decoded = <<>>
    /\ emitted = <<>>
    /\ resets_in_row = 0
    /\ fresh = TinygradDetokenizer

\* detokenizer.add(token) followed by a read of detokenizer.last_segment;
\* new_text is the wrapped tokenizer's decode of the extended list
Add ==
    /\ Len(detokenizer.all_tokens) < MaxToks
    /\ \E token \in Tokens, new_text \in Texts :
          /\ detokenizer' = add(detokenizer, token, new_text)
          /\ decoded' = Append(decoded, new_text)
          /\ emitted' = emitted \o last_segment(detokenizer')
          /\ fresh' = add(fresh, token, new_text)
    /\ resets_in_row' = 0
    /\ UNCHANGED <<genvars, othervars>>

\* detokenizer.reset()
Reset ==
    /\ resets_in_row < MaxResetsInRow
    /\ detokenizer' = reset(detokenizer)
    /\ decoded' = <<>>
    /\ emitted' = <<>>
    /\ resets_in_row' = resets_in_row + 1
    /\ fresh' = TinygradDetokenizer
    /\ UNCHANGED <<genvars, othervars>>

\* TinygradTokenizer.__init__: eos_token_ids is [] or [hf_tokenizer.eos_token];
\* the TokenizerWrapper protocol also allows None
EosChoices == {Absent, Some(<<>>)} \cup {Some(<<t>>) : t \in Tokens}

NoWarmup == [pc |-> "idle", count |-> 0, gen |-> NoGenerator]

GenInit ==
    /\ eos_token_ids \in EosChoices
    /\ gen = NoGenerator
    /\ warm = NoWarmup

\* what the collaborators do during one next(): the list encode returns, the
\* token the sampler returns, the text decode returns, and which call raises
Prompts == UNION {[1..n -> Tokens] : n \in 0..MaxPrompt}

Fails == {"none", "template", "encode", "model", "sampler", "decode"}

PullInputs == [prompt : Prompts, fail : Fails, token : Tokens, decode_result : Texts]

\* task.max_tokens of the caller's request
TaskMaxTokens == {Absent} \cup {Some(n) : n \in 0..MaxN}

Min(a, b) == IF a < b THEN a ELSE b

\* the detokenizer after a next(), with the history variables kept in step
ApplyOut(out) ==
    /\ detokenizer' = out.d
    /\ decoded' = (IF out.did_reset THEN <<>> ELSE decoded) \o out.decodes
    /\ emitted' = (IF out.did_reset THEN <<>> ELSE emitted)
                      \o (IF out.decodes # <<>> THEN last_segment(out.d) ELSE <<>>)
    /\ resets_in_row' = IF out.decodes # <<>> THEN 0
                        ELSE IF out.did_reset THEN Min(resets_in_row + 1, MaxResetsInRow)
                        ELSE resets_in_row
    /\ fresh' = LET before == IF out.did_reset THEN reset(detokenizer) ELSE detokenizer
                    f == IF out.did_reset THEN TinygradDetokenizer ELSE fresh
                    n == Len(out.d.all_tokens)
                IN  IF n = Len(before.all_tokens) THEN f
                    ELSE IF out.decodes # <<>>
                    THEN add(f, out.d.all_tokens[n], out.decodes[1])
                    ELSE add_decode_raises(f, out.d.all_tokens[n])

\* gen = tinygrad_generate(model, tokenizer, sampler, task): a generator
\* function, so the call runs none of the body
Call ==
    /\ warm.pc # "iterating"
    /\ gen.state \in {"none", "finished"}
    /\ \E task_max_tokens \in TaskMaxTokens : gen' = NewGenerator(task_max_tokens)
    /\ UNCHANGED <<detvars, eos_token_ids, warm, othervars>>

\* next(gen) by the consumer
Pull ==
    /\ warm.pc # "iterating"
    /\ gen.state \in {"created", "suspended"}
    /\ \E inp \in PullInputs :
          LET out == GenNext(gen, detokenizer, eos_token_ids, inp)
          IN  gen' = out.g /\ ApplyOut(out)
    /\ UNCHANGED <<eos_token_ids, warm, othervars>>

\* warmup_inference up to the start of its for statement
WarmupCall ==
    /\ warm.pc \in {"idle", "returned", "raised"}
    /\ warm' = [pc |-> "iterating", count |-> 0,
                gen |-> NewGenerator(Some(WarmupMaxTokens))]
    /\ UNCHANGED <<detvars, eos_token_ids, gen, othervars>>

\* one iteration of "for _ in tinygrad_generate(...): count += 1", or its end
WarmupIter ==
    /\ warm.pc = "iterating"
    /\ \E inp \in PullInputs :
          LET out == GenNext(warm.gen, detokenizer, eos_token_ids, inp)
          IN  /\ warm' = [pc |-> IF out.g.state = "suspended" THEN "iterating"
                                 ELSE IF out.g.raised = "none" THEN "returned"
                                 ELSE "raised",
                          count |-> IF out.g.state = "suspended"
                                    THEN warm.count + 1 ELSE warm.count,
                          gen |-> out.g]
              /\ ApplyOut(out)
    /\ UNCHANGED <<eos_token_ids, gen, othervars>>

\* ------------------------------------------------ the stopping rule alone
MaxSteps == 4

EosLists == UNION {[1..n -> Tokens] : n \in 0..2}

PolicyEos == {Absent} \cup {Some(l) : l \in EosLists}

NoEvaluation ==
    [applied |-> FALSE, next_token |-> 0, idx |-> 0, max_tokens |-> 0,
     eos |-> Absent, finish_reason |-> None]

PolInit == pol = NoEvaluation

\* the "Check EOS" block applied to one step's values
Evaluate ==
    /\ \E next_token \in Tokens, max_tokens \in 1..MaxSteps, eos \in PolicyEos :
          \E idx \in 0..(max_tokens - 1) :
             pol' = [applied |-> TRUE, next_token |-> next_token, idx |-> idx,
                     max_tokens |-> max_tokens, eos |-> eos,
                     finish_reason |-> finish_reason_of(next_token, idx, max_tokens, eos)]
    /\ UNCHANGED <<detvars, genvars, instance, wire, restored>>

\* ------------------------------------------------------- the Instance union
\* discriminant names of the union's variants
KnownVariants == {"TinygradCPUInstance", "OtherBackendInstance"}

ForeignKeys == {"NoSuchInstance"}

InstanceIds == {"test-tinygrad", "i2"}

ModelIds == {"test-model"}

RunnerIds == {"r1"}

NodeIds == {"n1"}

Shards == {"shard0"}

Hosts == [ip : {"127.0.0.1", "10.0.0.2"}, port : {8000}]

MaxHosts == 2
MaxDirectAdds == 1

Maps(K, V) == UNION {[D -> V] : D \in SUBSET K}

ShardAssignments ==
    [model_id : ModelIds,
     runner_to_shard : Maps(RunnerIds, Shards),
     node_to_runner : Maps(NodeIds, RunnerIds)]

Instances ==
    [variant : KnownVariants,
     instance_id : InstanceIds,
     shard_assignments : ShardAssignments,
     hosts : UNION {[1..n -> Hosts] : n \in 0..MaxHosts}]

FieldNames == {"instanceId", "shardAssignments", "hosts"}

encode_snake_case(i) ==
    [k \in {i.variant} |->
       [instance_id |-> i.instance_id,
        shardAssignments |->
           [modelId |-> i.shard_assignments.model_id,
            runnerToShard |-> i.shard_assignments.runner_to_shard,
            nodeToRunner |-> i.shard_assignments.node_to_runner],
        hosts |-> [j \in 1..Len(i.hosts) |->
                     [ip |-> i.hosts[j].ip, port |-> i.hosts[j].port]]]]

\* serialization: one top-level key, the discriminant, over the fields under
\* their lower-camel-case names
encode(i) ==
    [k \in {i.variant} |->
       [instanceId |-> i.instance_id,
        shardAssignments |->
           [modelId |-> i.shard_assignments.model_id,
            runnerToShard |-> i.shard_assignments.runner_to_shard,
            nodeToRunner |-> i.shard_assignments.node_to_runner],
        hosts |-> [j \in 1..Len(i.hosts) |->
                     [ip |-> i.hosts[j].ip, port |-> i.hosts[j].port]]]]

NoValue ==
    [variant |-> "", instance_id |-> "",
     shard_assignments |-> [model_id |-> "", runner_to_shard |-> <<>>,
                            node_to_runner |-> <<>>],
     hosts |-> <<>>]

Failed(error) == [ok |-> FALSE, error |-> error, value |-> NoValue]

Decoded(k, f) ==
    [ok |-> TRUE, error |-> "",
     value |-> [variant |-> k,
                instance_id |-> f.instanceId,
                shard_assignments |->
                   [model_id |-> f.shardAssignments.modelId,
                    runner_to_shard |-> f.shardAssignments.runnerToShard,
                    node_to_runner |-> f.shardAssignments.nodeToRunner],
                hosts |-> [j \in 1..Len(f.hosts) |->
                             [ip |-> f.hosts[j].ip, port |-> f.hosts[j].port]]]]

decode_defaults_variant(w) ==
    LET k == CHOOSE k \in DOMAIN w : TRUE
    IN  IF ~(FieldNames \subseteq DOMAIN w[k]) THEN Failed("MalformedFields")
        ELSE IF k \notin KnownVariants THEN Decoded("TinygradCPUInstance", w[k])
        ELSE Decoded(k, w[k])

\* deserialization through the union: the single top-level key selects the
\* variant, then the nested fields are read
decode(w) ==
    LET k == CHOOSE k \in DOMAIN w : TRUE
    IN  IF k \notin KnownVariants THEN Failed("UnknownVariant")
        ELSE IF ~(FieldNames \subseteq DOMAIN w[k]) THEN Failed("MalformedFields")
        ELSE Decoded(k, w[k])

InstInit ==
    /\ instance = Absent
    /\ wire = Absent
    /\ restored = Absent

\* instance.model_dump_json()
EncodeInstance ==
    /\ \E i \in Instances :
          /\ instance' = Some(i)
          /\ wire' = Some(encode(i))
    /\ restored' = Absent
    /\ UNCHANGED <<detvars, genvars, pol>>

\* a structure from another component whose top-level key names no variant
ReceiveForeign ==
    /\ \E i \in Instances, key \in ForeignKeys :
          wire' = Some([k \in {key} |-> encode(i)[i.variant]])
    /\ instance' = Absent
    /\ restored' = Absent
    /\ UNCHANGED <<detvars, genvars, pol>>

\* a structure of a known variant with a required field missing
ReceiveMalformed ==
    /\ \E i \in Instances :
          wire' = Some([k \in {i.variant} |-> [instanceId |-> i.instance_id]])
    /\ instance' = Absent
    /\ restored' = Absent
    /\ UNCHANGED <<detvars, genvars, pol>>

\* TypeAdapter(Instance).validate_json(...)
DecodeWire ==
    /\ wire # Absent
    /\ restored = Absent
    /\ restored' = Some(decode(wire[1]))
    /\ UNCHANGED <<detvars, genvars, pol, instance, wire>>

\* ----------------------------------------------------------- specifications
Init == DetokInit /\ GenInit /\ PolInit /\ InstInit

\* a tokenizer built over an hf_tokenizer whose eos_token is None
InitNoEos == Init /\ eos_token_ids = Some(<<>>)

DetokNext == Add \/ Reset

SpecDetok == InitNoEos /\ [][DetokNext]_vars

GenNextStep == Call \/ Pull \/ WarmupCall \/ WarmupIter

\* one caller's generations alone, without warmup_inference
CallerNext == Call \/ Pull

SpecCaller == Init /\ [][CallerNext]_vars

\* tokenizer.detokenizer.add(...) by a caller, before any generation is made
DirectAdd ==
    /\ gen.state = "none"
    /\ warm.pc = "idle"
    /\ Len(detokenizer.all_tokens) < MaxDirectAdds
    /\ Add

\* a caller's generator and warmup_inference's generator over one tokenizer
ShareNext == DirectAdd \/ Call \/ Pull \/ WarmupCall \/ WarmupIter

SpecShare == InitNoEos /\ [][ShareNext]_vars

SpecGen == Init /\ [][GenNextStep]_vars

SpecPolicy == InitNoEos /\ [][Evaluate]_vars

InstNext == EncodeInstance \/ ReceiveForeign \/ ReceiveMalformed \/ DecodeWire

SpecInstance == InitNoEos /\ [][InstNext]_vars

Next == DetokNext \/ GenNextStep \/ Evaluate \/ InstNext

Spec == Init /\ [][Next]_vars

\* ------------------------------------------------------------ claims C3, C4
IsPrefix(s, t) == Len(s) <= Len(t) /\ SubSeq(t, 1, Len(s)) = s

NonDecreasingLength(h) == \A i \in 1..(Len(h) - 1) : Len(h[i]) <= Len(h[i + 1])

PrefixExtending(h) == \A i \in 1..(Len(h) - 1) : IsPrefix(h[i], h[i + 1])

\* C3 as stated: when the decode results of the adds since construction or
\* reset are non-decreasing in length, the segments read after each add,
\* concatenated, are exactly get().
C3_Original == NonDecreasingLength(decoded) => emitted = get(detokenizer)

\* C3 amended: when every decode result of the adds since construction or
\* reset has the previous result as a prefix, the segments read after each
\* add, concatenated, are exactly get().
C3_Amended == PrefixExtending(decoded) => emitted = get(detokenizer)

C3_Witness ==
    /\ Len(decoded) >= 2
    /\ PrefixExtending(decoded)
    /\ Len(decoded[1]) >= 1
    /\ Len(decoded[2]) > Len(decoded[1])
    /\ emitted = decoded[Len(decoded)]

\* C4: a reset() leaves get() empty and all_tokens empty whatever the state
\* before, and a reset() right after a reset() changes nothing.
C4_ResetClears ==
    [][resets_in_row' > resets_in_row =>
          /\ get(detokenizer') = <<>>
          /\ detokenizer'.all_tokens = <<>>
          /\ (resets_in_row >= 1 => detokenizer' = detokenizer)]_vars

C4_Witness ==
    /\ resets_in_row = 2
    /\ detokenizer.current_segment # <<>>
    /\ get(detokenizer) = <<>>

\* ------------------------------------------- claims C1, C5, C6, C7, C10
\* the errors of the external collaborators (tokenizer, model, sampler)
CollaboratorFailures == {"TokenizerFailure", "ModelFailure", "SamplerFailure"}

FailureOf(fail) ==
    IF fail = "model" THEN "ModelFailure"
    ELSE IF fail = "sampler" THEN "SamplerFailure"
    ELSE "TokenizerFailure"

InEos(t) ==
    eos_token_ids # Absent /\ \E i \in 1..Len(eos_token_ids[1]) : eos_token_ids[1][i] = t

\* the tokens the sampler returned to generator g
Sampled(g) == SubSeq(g.curr_tokens, Len(g.tokens) + 1, Len(g.curr_tokens))

NoEosSampled(g) == \A i \in 1..Len(Sampled(g)) : ~InEos(Sampled(g)[i])

\* g has been pulled until it ended, and no collaborator raised
Exhausted(g) == g.state = "finished" /\ g.last_fail = "none"

\* C1: a request with max_tokens = N >= 1 whose sampler never returns an EOS
\* token yields, pulled to exhaustion, exactly N responses: N-1 with no
\* finish reason, then one with "length".
C1_LoopTermination ==
    (/\ Exhausted(gen)
     /\ gen.task_max_tokens # Absent
     /\ gen.task_max_tokens[1] >= 1
     /\ NoEosSampled(gen))
    => LET N == gen.task_max_tokens[1]
       IN  /\ Len(gen.responses) = N
           /\ \A i \in 1..(N - 1) : gen.responses[i].finish_reason = None
           /\ gen.responses[N].finish_reason = "length"

C7_WarmupCount ==
    (warm.pc \in {"returned", "raised"} /\ warm.gen.last_fail = "none")
    => /\ warm.pc = "returned"
       /\ warm.count = Len(warm.gen.responses)
       /\ 1 <= warm.count
       /\ warm.count <= WarmupMaxTokens

InList(t, l) == \E i \in 1..Len(l) : l[i] = t

\* C2: a token that is in a non-empty eos_token_ids gets finish reason
\* "stop" on every step, and in particular on step max_tokens - 1, where the
\* length check would fire too.
C2_StopBeforeLength ==
    (pol.applied /\ pol.eos # Absent /\ InList(pol.next_token, pol.eos[1]))
    => pol.finish_reason = "stop"

C2_Witness ==
    /\ pol.applied
    /\ pol.eos # Absent
    /\ InList(pol.next_token, pol.eos[1])
    /\ pol.idx = pol.max_tokens - 1
    /\ pol.finish_reason = "stop"

C9_WireShape ==
    /\ (instance # Absent /\ wire # Absent)
         => /\ DOMAIN wire[1] = {instance[1].variant}
            /\ DOMAIN wire[1][instance[1].variant] = FieldNames
            /\ wire[1][instance[1].variant].instanceId = instance[1].instance_id
    /\ (restored # Absent /\ DOMAIN wire[1] \cap KnownVariants = {})
         => /\ ~restored[1].ok
            /\ restored[1].error = "UnknownVariant"

C9_Witness ==
    /\ wire # Absent
    /\ restored # Absent
    /\ DOMAIN wire[1] \cap KnownVariants = {}
    /\ FieldNames \subseteq DOMAIN wire[1][CHOOSE k \in DOMAIN wire[1] : TRUE]
    /\ restored[1].error = "UnknownVariant"

\* ------------------------------------------------- claims C13, C14, C15, C16
\* the step is an add: the history of decode results grew by one
IsAddStep == Len(decoded') = Len(decoded) + 1

\* what decode returned in the add just made
NewDecode == decoded'[Len(decoded')]

\* C13 as stated: after every add, whatever decode returns, full_text is the
\* decode of the complete all_tokens computed in that add.
C13_Original == decoded # <<>> => get(detokenizer) = decoded[Len(decoded)]

\* C13 amended: after every add whose decode is strictly longer than
\* full_text was before the call, full_text is that decode.
C13_Amended ==
    [][(IsAddStep /\ Len(NewDecode) > Len(get(detokenizer)))
          => get(detokenizer') = NewDecode]_vars

C13_Witness ==
    /\ Len(decoded) = 2
    /\ Len(decoded[2]) > Len(decoded[1])
    /\ ~IsPrefix(decoded[1], decoded[2])
    /\ get(detokenizer) = decoded[2]

\* C14: an add whose decode is not longer than full_text still appends the
\* token, sets last_segment to "" and leaves full_text as it was; an add
\* whose decode is longer sets last_segment to the decode from index
\* len(old full_text) on and full_text to the decode.
C14_NonGrowingDecode ==
    [][IsAddStep =>
          /\ Len(detokenizer'.all_tokens) = Len(detokenizer.all_tokens) + 1
          /\ SubSeq(detokenizer'.all_tokens, 1, Len(detokenizer.all_tokens))
                = detokenizer.all_tokens
          /\ IF Len(NewDecode) > Len(get(detokenizer))
             THEN /\ last_segment(detokenizer')
                       = SubSeq(NewDecode, Len(get(detokenizer)) + 1, Len(NewDecode))
                  /\ get(detokenizer') = NewDecode
             ELSE /\ last_segment(detokenizer') = <<>>
                  /\ get(detokenizer') = get(detokenizer)]_vars

C14_Witness ==
    /\ Len(decoded) = 2
    /\ Len(decoded[1]) > 0
    /\ Len(decoded[2]) <= Len(decoded[1])
    /\ decoded[2] # decoded[1]
    /\ Len(detokenizer.all_tokens) = 2
    /\ last_segment(detokenizer) = <<>>
    /\ get(detokenizer) = decoded[1]

\* C15: whatever decode returns, len(full_text) never decreases between
\* resets, the segment of an add is exactly the part of the new full_text
\* from the old length to the new one, and the lengths of the segments
\* emitted since construction or reset add up to len(full_text).
C15_NoOverlap ==
    [][/\ Len(emitted') = Len(get(detokenizer'))
       /\ IsAddStep =>
            /\ Len(get(detokenizer')) >= Len(get(detokenizer))
            /\ last_segment(detokenizer')
                 = SubSeq(get(detokenizer'), Len(get(detokenizer)) + 1,
                          Len(get(detokenizer')))]_vars

C15_Witness ==
    /\ Len(decoded) = 3
    /\ Len(decoded[1]) = 1
    /\ decoded[2] = <<>>
    /\ Len(decoded[3]) = 2
    /\ ~IsPrefix(decoded[1], decoded[3])
    /\ Len(emitted) = 2
    /\ Len(get(detokenizer)) = 2

\* C16: after a reset, all_tokens, get() and last_segment are those of a
\* freshly constructed detokenizer, and they stay equal to those of the fresh
\* one under the same add calls.
C16_ResetIsInitial ==
    /\ detokenizer.all_tokens = fresh.all_tokens
    /\ get(detokenizer) = get(fresh)
    /\ last_segment(detokenizer) = last_segment(fresh)

\* ------------------------------------------- claims C11, C12, C17 .. C20
\* the consumer's last next() had a step to compute and no collaborator raised
Served(g) == g.pulls >= 1 /\ g.step_due /\ g.last_fail = "none"

\* C11: the model is called with start_pos = 0 at step 0 and with
\* start_pos = P + k - 1 at every step k >= 1, P the prompt length, and
\* after step k has yielded the counter is P + k.
C11_PositionCounter ==
    Served(gen) =>
       LET P == Len(gen.tokens)
       IN  /\ Len(gen.model_calls) = gen.pulls
           /\ \A j \in 1..Len(gen.model_calls) :
                 gen.model_calls[j].start_pos = IF j = 1 THEN 0 ELSE P + j - 2
           /\ gen.start_pos = P + gen.pulls - 1

\* C12: at step 0 the model gets the whole encoded prompt as a batch of shape
\* (1, prompt_length); at every step k >= 1 it gets only the token yielded
\* at step k-1, as a batch of shape (1, 1).
C12_ModelInput ==
    Served(gen) =>
       /\ Len(gen.model_calls) = gen.pulls
       /\ Len(gen.responses) = gen.pulls
       /\ \A j \in 1..Len(gen.model_calls) :
             IF j = 1
             THEN /\ gen.model_calls[j].x = gen.tokens
                  /\ gen.model_calls[j].shape = <<1, Len(gen.tokens)>>
             ELSE /\ gen.model_calls[j].x = <<gen.responses[j - 1].token>>
                  /\ gen.model_calls[j].shape = <<1, 1>>

C18_NoStopWithoutEos ==
    (pol.applied /\ (pol.eos = Absent \/ pol.eos[1] = <<>>))
    => /\ pol.finish_reason # "stop"
       /\ pol.finish_reason = "length" <=> pol.idx = pol.max_tokens - 1

C18_Witness ==
    /\ pol.applied
    /\ pol.eos \in {Absent, Some(<<>>)}
    /\ pol.idx = pol.max_tokens - 1
    /\ pol.finish_reason = "length"

\* the tokens of a list of responses
TokensOf(rs) == [i \in 1..Len(rs) |-> rs[i].token]

Entered(g) ==
    /\ g.pulls >= 1
    /\ g.tokenizer_calls = 2
    /\ g.pulls = 1 => g.last_fail # "encode"

\* C20: the step bound is task.max_tokens when that is a positive integer
\* and MAX_TOKENS when it is None or 0; responses and model calls never
\* exceed the bound.
C20_StepBudget ==
    Entered(gen) =>
       /\ gen.max_tokens = IF gen.task_max_tokens = Absent THEN MAX_TOKENS
                           ELSE IF gen.task_max_tokens[1] >= 1
                           THEN gen.task_max_tokens[1]
                           ELSE MAX_TOKENS
       /\ Len(gen.responses) <= gen.max_tokens
       /\ Len(gen.model_calls) <= gen.max_tokens

C20_Witness ==
    /\ Entered(gen)
    /\ gen.task_max_tokens = Some(0)
    /\ gen.max_tokens = MAX_TOKENS

====
